---- MODULE Spec2Model ----
(***************************************************************************)
(* The single-threaded task runtime of src/src/futures.rs: the Reactor     *)
(* (readiness table over an edge-triggered multiplexer), the Scheduler     *)
(* (run-queue and drive loop), the accept task `Main` and the              *)
(* per-connection `Handler` state machine.                                 *)
(*                                                                         *)
(* Tasks are identified by small integers: MainTask is the accept task,    *)
(* task c (c in Conns) is the Handler spawned for connection c.  A waker   *)
(* is identified with the task it re-enqueues (futures.rs:111-117), so the *)
(* Reactor's table maps a token to a task id.                              *)
(*                                                                         *)
(* The sockets are the environment: a connection has a receive queue rx,   *)
(* a bounded send buffer (inflight of TxCap bytes) and a peer that may     *)
(* send, half-close, reset and drain.  The multiplexer is edge-triggered:  *)
(* a readiness change of a registered source appends its token to the      *)
(* ready list `events` (once), and Reactor::wait takes the whole list.     *)
(***************************************************************************)
EXTENDS Integers, Sequences, FiniteSets, TLC

\* ---- bounds of the model ------------------------------------------------
MaxConn == 2
MaxChunks == 2
TxCap == 40
RecvSome == 7

\* ---- program constants --------------------------------------------------
Cap == 1024
ListenerFd == 4
MainTask == 0
NoTask == 99
CR == 13
LF == 10

Conns == 1..MaxConn
FdPool == (ListenerFd + 1)..(ListenerFd + MaxConn)
Terminator == <<CR, LF, CR, LF>>

\* concat!("HTTP/1.1 200 OK\r\n", "Content-Length: 13\n",
\*         "Connection: close\r\n\r\n", "Hello world!\n") as bytes
Response ==
  <<72, 84, 84, 80, 47, 49, 46, 49, 32, 50, 48, 48, 32, 79, 75, 13, 10>> \o
  <<67, 111, 110, 116, 101, 110, 116, 45, 76, 101, 110, 103, 116, 104, 58,
    32, 49, 51, 10>> \o
  <<67, 111, 110, 110, 101, 99, 116, 105, 111, 110, 58, 32, 99, 108, 111,
    115, 101, 13, 10, 13, 10>> \o
  <<72, 101, 108, 108, 111, 32, 119, 111, 114, 108, 100, 33, 10>>

VARIABLES
  pc,        \* Scheduler::run position: "drain", "poll", "wait", "panicked"
  runnable,  \* Scheduler.runnable: sequence of task ids
  current,   \* the task popped at futures.rs:107 and being polled
  mainState, \* enum Main: "Start" or "Accept"
  handler,   \* Handler.state per connection (tagged record)
  ret,       \* what the last poll of each task returned
  tasks,     \* Reactor.tasks: token -> task whose waker is stored
  interest,  \* tokens registered with the poll registry
  events,    \* ready list of the multiplexer (tokens, no duplicates)
  backlog,   \* connections waiting in the listener's accept queue
  cstate,    \* per connection: "idle", "queued", "open", "closed"
  fd,        \* descriptor of an accepted connection, 0 when none
  rx,        \* bytes received from the peer and not yet read
  peer,      \* "open", "closed" (peer sent FIN), "reset"
  nsent,     \* number of chunks the peer has sent
  inflight,  \* bytes in the send buffer the peer has not drained
  wire,      \* the pieces the socket accepted from successive write()s
  taken,     \* the pieces successive read()s handed to the Handler
  printed,   \* the request printed at futures.rs:241-242 (<<>> if none)
  outcome,   \* how the Handler ended: "none", "disconnected", "write_zero", "served"
  snapshot,  \* the run-queue when the current drain pass started (empty between passes)
  passed,    \* the tasks popped so far in the current drain pass, in order
  token      \* per connection: the token Reactor::add gave its source, 0 before

vars == <<pc, runnable, current, mainState, handler, ret, tasks, interest,
          events, backlog, cstate, fd, rx, peer, nsent, inflight, wire,
          taken, printed, outcome, snapshot, passed, token>>

schedVars == <<pc, runnable, current, mainState, handler, ret, tasks,
               snapshot, passed, token>>

\* ---- helpers ------------------------------------------------------------
Min(a, b) == IF a < b THEN a ELSE b
Max(a, b) == IF a > b THEN a ELSE b
Range(s) == {s[i] : i \in DOMAIN s}
IsPrefix(s, t) == Len(s) <= Len(t) /\ SubSeq(t, 1, Len(s)) = s
Filler(n) == [i \in 1..n |-> 120]

RECURSIVE Flatten(_)
Flatten(ss) == IF ss = <<>> THEN <<>> ELSE Head(ss) \o Flatten(Tail(ss))

EndsWith(s, t) ==
  Len(s) >= Len(t) /\ SubSeq(s, Len(s) - Len(t) + 1, Len(s)) = t

Contains(s, t) ==
  \E i \in 1..Len(s) : i + Len(t) - 1 <= Len(s) /\ SubSeq(s, i, i + Len(t) - 1) = t

\* The request populations of the clients.  WholeRequests: a request sent in
\* one piece.  SplitRequests: whole, or cut inside the terminator.
\* LargeRequests: pieces that fill the 1024-byte buffer.
\* "GET / HTTP/1.1\r\nHost: x\r\n\r\n"
GetRequest ==
  <<71, 69, 84, 32, 47, 32, 72, 84, 84, 80, 47, 49, 46, 49, 13, 10>> \o
  <<72, 111, 115, 116, 58, 32, 120, 13, 10, 13, 10>>

WholeRequests == {<<71, CR, LF, CR, LF>>}
SplitRequests == {GetRequest, <<71, CR, LF>>, <<CR, LF>>}
LargeRequests == {Filler(Cap - 4), Filler(4), Filler(5), Terminator}

\* ---- Reactor ------------------------------------------------------------
\* Token(source.as_raw_fd() as usize)
TokenOf(rawfd) == rawfd

TableInsert(t, tok, task) ==
  [x \in (DOMAIN t) \cup {tok} |-> IF x = tok THEN task ELSE t[x]]

\* a removal that empties the whole table
TableClear(t, tok) == <<>>

TableRemove(t, tok) == [x \in (DOMAIN t) \ {tok} |-> t[x]]

\* edge-triggered notification of a readiness change of source `tok`
Notify(ev, reg, tok) ==
  IF tok \in reg /\ tok \notin Range(ev) THEN Append(ev, tok) ELSE ev

Without(ev, tok) == SelectSeq(ev, LAMBDA x : x # tok)

\* a wait loop whose wakers push at the front of the queue
RECURSIVE WakeAllFront(_, _, _)
WakeAllFront(evs, t, q) ==
  IF evs = <<>> THEN q
  ELSE WakeAllFront(Tail(evs), t,
                    IF Head(evs) \in DOMAIN t THEN <<t[Head(evs)]>> \o q ELSE q)

\* a wait loop that wakes once for read and once for write readiness
RECURSIVE WakeAllTwice(_, _, _)
WakeAllTwice(evs, t, q) ==
  IF evs = <<>> THEN q
  ELSE WakeAllTwice(Tail(evs), t,
                    IF Head(evs) \in DOMAIN t
                    THEN Append(Append(q, t[Head(evs)]), t[Head(evs)])
                    ELSE q)

\* Reactor::wait, the loop over the returned events: wake the task whose
\* waker the table holds for the token
RECURSIVE WakeAll(_, _, _)
WakeAll(evs, t, q) ==
  IF evs = <<>> THEN q
  ELSE WakeAll(Tail(evs), t,
               IF Head(evs) \in DOMAIN t THEN Append(q, t[Head(evs)]) ELSE q)

\* a poll that returns at once, also with no event
WaitReturnsAtOnce(evs) == TRUE

\* poll(&mut events, None) blocks until the ready list is non-empty
WaitReturns(evs) == evs # <<>>

\* ---- sockets ------------------------------------------------------------
\* TcpStream::read into a slice of `len` bytes
SockRead(avail, pr, len) ==
  IF pr = "reset" THEN [kind |-> "err", n |-> 0]
  ELSE IF avail # <<>> THEN [kind |-> "ok", n |-> Min(len, Len(avail))]
  ELSE IF pr = "closed" THEN [kind |-> "ok", n |-> 0]
  ELSE [kind |-> "wouldblock", n |-> 0]

\* TcpStream::write of a slice of `len` bytes
SockWrite(infl, pr, len) ==
  IF pr = "reset" THEN [kind |-> "err", n |-> 0]
  ELSE IF len = 0 THEN [kind |-> "ok", n |-> 0]
  ELSE IF infl >= TxCap THEN [kind |-> "wouldblock", n |-> 0]
  ELSE [kind |-> "ok", n |-> Min(len, TxCap - infl)]

\* flush of the connection: not ready while output is still buffered
SockFlush(infl, pr) ==
  IF pr = "reset" THEN "err"
  ELSE IF infl > 0 THEN "wouldblock"
  ELSE "ok"

\* the source is readable or writable at this instant
StreamReady(avail, pr, infl) == avail # <<>> \/ pr # "open" \/ infl < TxCap

\* ---- Handler ------------------------------------------------------------
\* request: the 1024-byte array, kept without its untouched zero tail
ReqAt(request, i) == IF i <= Len(request) THEN request[i] ELSE 0

\* &request[..read]
ReqSlice(request, read) == [i \in 1..read |-> ReqAt(request, i)]

\* a read that stores at the front of the buffer, whatever the offset
BufWriteFront(request, read, data) ==
  [i \in 1..Max(Len(request), Len(data)) |->
     IF i <= Len(data) THEN data[i] ELSE ReqAt(request, i)]

\* read(&mut request[*read..]) storing `data` at offset `read`
BufWrite(request, read, data) ==
  [i \in 1..Max(Len(request), read + Len(data)) |->
     IF i > read /\ i <= read + Len(data) THEN data[i - read]
     ELSE ReqAt(request, i)]

\* a terminator test that only counts the bytes received
EndsRequestAny(request, read) == read >= 4

\* read >= 4 && &request[read - 4..read] == b"\r\n\r\n"
EndsRequest(request, read) ==
  /\ read >= 4
  /\ <<ReqAt(request, read - 3), ReqAt(request, read - 2),
       ReqAt(request, read - 1), ReqAt(request, read)>> = Terminator

\* a read slice that is always the whole buffer
ReadRoomWhole(read) == Cap

\* the length of &mut request[*read..]
ReadRoom(read) == Cap - read

\* the read loop of Handler::poll
RECURSIVE ReadLoop(_, _, _, _, _)
ReadLoop(request, read, avail, pr, got) ==
  LET r == SockRead(avail, pr, ReadRoom(read))
      out(res) == [res |-> res, request |-> request, read |-> read,
                   rx |-> avail, got |-> got]
  IN  IF r.kind = "err" THEN out("panic")
      ELSE IF r.kind = "wouldblock" THEN out("pending")
      ELSE IF r.n = 0 THEN out("ready")
      ELSE LET data == SubSeq(avail, 1, r.n)
               req2 == BufWrite(request, read, data)
               rd2 == read + r.n
               rest == SubSeq(avail, r.n + 1, Len(avail))
           IN  IF EndsRequest(req2, rd2)
               THEN [res |-> "break", request |-> req2, read |-> rd2,
                     rx |-> rest, got |-> Append(got, data)]
               ELSE ReadLoop(req2, rd2, rest, pr, Append(got, data))

\* a write that offers the whole response again
WriteSliceWhole(written) == Response

\* &response[*written..]
WriteSlice(written) == SubSeq(Response, written + 1, Len(Response))

\* the write loop of Handler::poll
RECURSIVE WriteLoop(_, _, _, _)
WriteLoop(written, infl, w, pr) ==
  LET slice == WriteSlice(written)
      r == SockWrite(infl, pr, Len(slice))
      out(res) == [res |-> res, written |-> written, inflight |-> infl,
                   wire |-> w]
  IN  IF r.kind = "err" THEN out("panic")
      ELSE IF r.kind = "wouldblock" THEN out("pending")
      ELSE IF r.n = 0 THEN out("ready")
      ELSE LET wr2 == written + r.n
               w2 == Append(w, SubSeq(slice, 1, r.n))
           IN  IF wr2 = Len(Response)
               THEN [res |-> "break", written |-> wr2,
                     inflight |-> infl + r.n, wire |-> w2]
               ELSE WriteLoop(wr2, infl + r.n, w2, pr)


\* a Read stage that starts from an empty buffer on every poll
ReadStageFresh(x, pr) ==
  IF x.ret # "run" \/ x.state.tag # "Read" THEN x
  ELSE LET rl == ReadLoop(<<>>, 0, x.rx, pr, <<>>)
           y == [x EXCEPT !.rx = rl.rx, !.taken = x.taken \o rl.got,
                          !.state = [tag |-> "Read", request |-> rl.request,
                                     read |-> rl.read]]
       IN  IF rl.res = "break"
           THEN [y EXCEPT !.state = [tag |-> "Write", written |-> 0],
                          !.printed = ReqSlice(rl.request, rl.read)]
           ELSE IF rl.res = "ready"
           THEN [y EXCEPT !.ret = "ready", !.outcome = "disconnected"]
           ELSE [y EXCEPT !.ret = rl.res]

\* the reads of Handler::poll in state Read, up to the move into Write
ReadStage(x, pr) ==
  IF x.ret # "run" \/ x.state.tag # "Read" THEN x
  ELSE LET rl == ReadLoop(x.state.request, x.state.read, x.rx, pr, <<>>)
           y == [x EXCEPT !.rx = rl.rx, !.taken = x.taken \o rl.got,
                          !.state = [tag |-> "Read", request |-> rl.request,
                                     read |-> rl.read]]
       IN  IF rl.res = "break"
           THEN [y EXCEPT !.state = [tag |-> "Write", written |-> 0],
                          !.printed = ReqSlice(rl.request, rl.read)]
           ELSE IF rl.res = "ready"
           THEN [y EXCEPT !.ret = "ready", !.outcome = "disconnected"]
           ELSE [y EXCEPT !.ret = rl.res]

\* the writes of Handler::poll in state Write, up to the move into Flush
WriteStage(x, pr) ==
  IF x.ret # "run" \/ x.state.tag # "Write" THEN x
  ELSE LET wl == WriteLoop(x.state.written, x.inflight, x.wire, pr)
           y == [x EXCEPT !.inflight = wl.inflight, !.wire = wl.wire,
                          !.state = [tag |-> "Write", written |-> wl.written]]
       IN  IF wl.res = "break" THEN [y EXCEPT !.state = [tag |-> "Flush"]]
           ELSE IF wl.res = "ready"
           THEN [y EXCEPT !.ret = "ready", !.outcome = "write_zero"]
           ELSE [y EXCEPT !.ret = wl.res]

\* the flush of Handler::poll in state Flush
FlushStage(x, pr) ==
  IF x.ret # "run" \/ x.state.tag # "Flush" THEN x
  ELSE LET f == SockFlush(x.inflight, pr)
       IN  IF f = "ok" THEN x
           ELSE IF f = "wouldblock" THEN [x EXCEPT !.ret = "pending"]
           ELSE [x EXCEPT !.ret = "panic"]

\* a tail of Handler::poll that reports completion without the remove
DoneStageNoRemove(x, tok) ==
  IF x.ret # "run" THEN x
  ELSE [x EXCEPT !.ret = "ready", !.outcome = "served"]

\* the tail of Handler::poll: reactor.remove(&mut self.connection); Some(())
DoneStage(x, tok) ==
  IF x.ret # "run" THEN x
  ELSE [x EXCEPT !.tasks = TableRemove(x.tasks, tok),
                 !.interest = x.interest \ {tok},
                 !.events = Without(x.events, tok),
                 !.ret = "ready", !.outcome = "served"]

\* a Start stage that forgets to register the connection
StartStageNoAdd(x, tok, task, pr) ==
  IF x.state.tag # "Start" THEN x
  ELSE [x EXCEPT !.state = [tag |-> "Read", request |-> <<>>, read |-> 0]]

\* the head of Handler::poll: in Start, reactor.add(&mut self.connection,
\* waker) and the move into Read with an empty buffer
StartStage(x, tok, task, pr) ==
  IF x.state.tag # "Start" THEN x
  ELSE LET reg == x.interest \cup {tok}
       IN  [x EXCEPT !.tasks = TableInsert(x.tasks, tok, task),
                     !.interest = reg,
                     !.events = IF StreamReady(x.rx, pr, x.inflight)
                                THEN Notify(x.events, reg, tok)
                                ELSE x.events,
                     !.state = [tag |-> "Read", request |-> <<>>,
                                read |-> 0]]

\* Handler::poll of the task of connection c, as one call: the stages in
\* program order, each applied to the value the one before it produced
HandlerPoll(c) ==
  LET x0 == [state |-> handler[c], ret |-> "run", tasks |-> tasks,
             interest |-> interest, events |-> events, rx |-> rx[c],
             inflight |-> inflight[c], wire |-> wire[c],
             taken |-> taken[c], printed |-> printed[c],
             outcome |-> outcome[c]]
      s1 == {StartStage(x0, TokenOf(fd[c]), c, peer[c])}
      s2 == {ReadStage(x1, peer[c]) : x1 \in s1}
      s3 == {WriteStage(x2, peer[c]) : x2 \in s2}
      s4 == {FlushStage(x3, peer[c]) : x3 \in s3}
  IN  CHOOSE x5 \in {DoneStage(x4, TokenOf(fd[c])) : x4 \in s4} : TRUE

\* ---- Scheduler ----------------------------------------------------------
\* a task kept alive by the run-queue only, as if wakers held no reference
ReferencedByQueue(t, q, task) == task \in Range(q)

\* a task stays alive while the run-queue or a waker stored in the
\* Reactor's table holds a clone of its Arc
Referenced(t, q, task) ==
  task \in Range(q) \/ \E tok \in DOMAIN t : t[tok] = task

\* a pop that takes the task at the back of the queue
PopBack(q) == SubSeq(q, 1, Len(q) - 1)

\* a pop that leaves the task at the front of the queue
PopFrontPeek(q) == q

\* runnable.lock().unwrap().pop_front()
PopFront(q) == Tail(q)

Init ==
  /\ pc = "drain"
  /\ runnable = <<MainTask>>
  /\ current = NoTask
  /\ mainState = "Start"
  /\ handler = [c \in Conns |-> [tag |-> "None"]]
  /\ ret = [t \in {MainTask} \cup Conns |-> "new"]
  /\ tasks = [x \in {} |-> MainTask]
  /\ interest = {}
  /\ events = <<>>
  /\ backlog = <<>>
  /\ cstate = [c \in Conns |-> "idle"]
  /\ fd = [c \in Conns |-> 0]
  /\ rx = [c \in Conns |-> <<>>]
  /\ peer = [c \in Conns |-> "open"]
  /\ nsent = [c \in Conns |-> 0]
  /\ inflight = [c \in Conns |-> 0]
  /\ wire = [c \in Conns |-> <<>>]
  /\ taken = [c \in Conns |-> <<>>]
  /\ printed = [c \in Conns |-> <<>>]
  /\ outcome = [c \in Conns |-> "none"]
  /\ snapshot = <<MainTask>>
  /\ passed = <<>>
  /\ token = [c \in Conns |-> 0]

envVars == <<backlog, cstate, fd, rx, peer, nsent, inflight, wire, taken,
             printed, outcome, interest, events>>

\* Scheduler::run, inner loop: a runnable task is popped off the queue
PopTask ==
  /\ pc = "drain"
  /\ runnable # <<>>
  /\ current' = Head(runnable)
  /\ runnable' = PopFront(runnable)
  /\ pc' = "poll"
  /\ passed' = Append(passed, Head(runnable))
  /\ UNCHANGED <<mainState, handler, ret, tasks, snapshot, token>>
  /\ UNCHANGED envVars

\* Scheduler::run, inner loop: pop_front() returns None, break
QueueEmpty ==
  /\ pc = "drain"
  /\ runnable = <<>>
  /\ pc' = "wait"
  /\ snapshot' = <<>>
  /\ passed' = <<>>
  /\ UNCHANGED <<runnable, current, mainState, handler, ret, tasks, token>>
  /\ UNCHANGED envVars

\* Reactor::wait: block until the multiplexer reports events, then wake
ReactorWait ==
  /\ pc = "wait"
  /\ WaitReturns(events)
  /\ runnable' = WakeAll(events, tasks, runnable)
  /\ events' = <<>>
  /\ pc' = "drain"
  /\ snapshot' = runnable'
  /\ passed' = <<>>
  /\ UNCHANGED <<current, mainState, handler, ret, tasks, token>>
  /\ UNCHANGED <<backlog, cstate, fd, rx, peer, nsent, inflight, wire,
                 taken, printed, outcome, interest>>

\* the connections one poll of Main takes off the accept queue: a single
\* listener.accept() per poll
Accepted(bl) == IF bl = <<>> THEN <<>> ELSE <<Head(bl)>>

\* the descriptor accept() returns: the lowest one not in use
NewFd(f) ==
  LET used == {f[c] : c \in Conns}
  IN  CHOOSE n \in FdPool \ used : \A m \in FdPool \ used : n <= m

RECURSIVE AssignFds(_, _)
AssignFds(cs, f) ==
  IF cs = <<>> THEN f
  ELSE AssignFds(Tail(cs), [f EXCEPT ![Head(cs)] = NewFd(f)])

\* Main::poll
PollMain ==
  /\ pc = "poll"
  /\ current = MainTask
  /\ LET starting == mainState = "Start"
         reg == IF starting THEN interest \cup {ListenerFd} ELSE interest
         acc == Accepted(backlog)
     IN  /\ mainState' = "Accept"
         /\ tasks' = IF starting
                     THEN TableInsert(tasks, ListenerFd, MainTask)
                     ELSE tasks
         /\ interest' = reg
         /\ events' = IF starting /\ backlog # <<>>
                      THEN Notify(events, reg, ListenerFd)
                      ELSE events
         /\ backlog' = SubSeq(backlog, Len(acc) + 1, Len(backlog))
         /\ fd' = AssignFds(acc, fd)
         /\ cstate' = [c \in Conns |->
                         IF c \in Range(acc) THEN "open" ELSE cstate[c]]
         /\ handler' = [c \in Conns |->
                          IF c \in Range(acc) THEN [tag |-> "Start"]
                          ELSE handler[c]]
         /\ runnable' = runnable \o acc
  /\ ret' = [ret EXCEPT ![MainTask] = "pending"]
  /\ current' = NoTask
  /\ pc' = "drain"
  /\ UNCHANGED <<rx, peer, nsent, inflight, wire, taken, printed, outcome,
                 snapshot, passed, token>>

\* Handler::poll of the popped task, and the drop of the handle after it
PollHandler(c) ==
  /\ pc = "poll"
  /\ current = c
  /\ \E x \in {HandlerPoll(c)} :
     LET dropped == /\ x.ret # "panic"
                    /\ ~Referenced(x.tasks, runnable, c)
     IN  /\ ret' = [ret EXCEPT ![c] = x.ret]
         /\ tasks' = x.tasks
         /\ wire' = [wire EXCEPT ![c] = x.wire]
         /\ taken' = [taken EXCEPT ![c] = x.taken]
         /\ printed' = [printed EXCEPT ![c] = x.printed]
         /\ outcome' = [outcome EXCEPT ![c] = x.outcome]
         /\ pc' = IF x.ret = "panic" THEN "panicked" ELSE "drain"
         /\ current' = IF x.ret = "panic" THEN c ELSE NoTask
         /\ IF dropped
            THEN /\ handler' = [handler EXCEPT ![c] = [tag |-> "Dropped"]]
                 /\ cstate' = [cstate EXCEPT ![c] = "closed"]
                 /\ fd' = [fd EXCEPT ![c] = 0]
                 /\ interest' = x.interest \ {fd[c]}
                 /\ events' = Without(x.events, fd[c])
                 /\ rx' = [rx EXCEPT ![c] = <<>>]
                 /\ inflight' = [inflight EXCEPT ![c] = 0]
            ELSE /\ handler' = [handler EXCEPT ![c] = x.state]
                 /\ interest' = x.interest
                 /\ events' = x.events
                 /\ rx' = [rx EXCEPT ![c] = x.rx]
                 /\ inflight' = [inflight EXCEPT ![c] = x.inflight]
                 /\ UNCHANGED <<cstate, fd>>
  /\ token' = IF handler[c].tag = "Start"
               THEN [token EXCEPT ![c] = TokenOf(fd[c])]
               ELSE token
  /\ UNCHANGED <<runnable, mainState, backlog, peer, nsent, snapshot, passed>>

\* ---- the peers ----------------------------------------------------------
Alive == pc # "panicked"

\* a client completes the TCP handshake with the listener
ClientConnect(c) ==
  /\ Alive
  /\ mainState = "Accept"
  /\ cstate[c] = "idle"
  /\ \A d \in Conns : d < c => cstate[d] # "idle"
  /\ cstate' = [cstate EXCEPT ![c] = "queued"]
  /\ backlog' = Append(backlog, c)
  /\ events' = Notify(events, interest, ListenerFd)
  /\ UNCHANGED schedVars
  /\ UNCHANGED <<fd, rx, peer, nsent, inflight, wire, taken, printed,
                 outcome, interest>>

\* readiness change of connection c as seen by the multiplexer
Edge(c) ==
  IF cstate[c] = "open" THEN Notify(events, interest, fd[c]) ELSE events

\* a client sends one chunk of request bytes
ClientSend(c, d, limit) ==
  /\ Alive
  /\ cstate[c] \in {"queued", "open"}
  /\ peer[c] = "open"
  /\ nsent[c] < limit
  /\ rx' = [rx EXCEPT ![c] = rx[c] \o d]
  /\ nsent' = [nsent EXCEPT ![c] = nsent[c] + 1]
  /\ events' = Edge(c)
  /\ UNCHANGED schedVars
  /\ UNCHANGED <<backlog, cstate, fd, peer, inflight, wire, taken, printed,
                 outcome, interest>>

\* a client shuts down its sending side
ClientClose(c) ==
  /\ Alive
  /\ cstate[c] \in {"queued", "open"}
  /\ peer[c] = "open"
  /\ peer' = [peer EXCEPT ![c] = "closed"]
  /\ events' = Edge(c)
  /\ UNCHANGED schedVars
  /\ UNCHANGED <<backlog, cstate, fd, rx, nsent, inflight, wire, taken,
                 printed, outcome, interest>>

\* a client aborts the connection
ClientReset(c) ==
  /\ Alive
  /\ cstate[c] = "open"
  /\ peer[c] # "reset"
  /\ peer' = [peer EXCEPT ![c] = "reset"]
  /\ events' = Edge(c)
  /\ UNCHANGED schedVars
  /\ UNCHANGED <<backlog, cstate, fd, rx, nsent, inflight, wire, taken,
                 printed, outcome, interest>>

\* a client takes the buffered response bytes off the connection
ClientRecv(c, k) ==
  /\ Alive
  /\ cstate[c] = "open"
  /\ peer[c] # "reset"
  /\ inflight[c] > 0
  /\ inflight' = [inflight EXCEPT ![c] = inflight[c] - Min(k, inflight[c])]
  /\ events' = Edge(c)
  /\ UNCHANGED schedVars
  /\ UNCHANGED <<backlog, cstate, fd, rx, peer, nsent, wire, taken, printed,
                 outcome, interest>>

\* the multiplexer reports a registered source although nothing changed
SpuriousEvent(tok) ==
  /\ Alive
  /\ tok \in interest
  /\ tok \notin Range(events)
  /\ events' = Append(events, tok)
  /\ UNCHANGED schedVars
  /\ UNCHANGED <<backlog, cstate, fd, rx, peer, nsent, inflight, wire, taken,
                 printed, outcome, interest>>

SchedulerStep ==
  \/ PopTask
  \/ QueueEmpty
  \/ ReactorWait
  \/ PollMain
  \/ \E c \in Conns : PollHandler(c)

\* many well-behaved clients: each connects, sends a whole request and reads
Next ==
  \/ PopTask
  \/ QueueEmpty
  \/ ReactorWait
  \/ PollMain
  \/ \E c \in Conns : PollHandler(c)
  \/ \E c \in Conns : ClientConnect(c)
  \/ \E c \in Conns : \E d \in WholeRequests : ClientSend(c, d, 1)
  \/ \E c \in Conns : ClientClose(c)
  \/ \E c \in Conns : ClientRecv(c, TxCap)

\* one client that may split its request, close, abort and read
NextOne ==
  \/ PopTask
  \/ QueueEmpty
  \/ ReactorWait
  \/ PollMain
  \/ PollHandler(1)
  \/ ClientConnect(1)
  \/ \E d \in SplitRequests : ClientSend(1, d, MaxChunks)
  \/ ClientClose(1)
  \/ ClientReset(1)
  \/ \E k \in {RecvSome, TxCap} : ClientRecv(1, k)
  \/ \E tok \in interest : SpuriousEvent(tok)

\* one client whose request fills the buffer
NextLarge ==
  \/ PopTask
  \/ QueueEmpty
  \/ ReactorWait
  \/ PollMain
  \/ PollHandler(1)
  \/ ClientConnect(1)
  \/ \E d \in LargeRequests : ClientSend(1, d, MaxChunks)
  \/ ClientClose(1)
  \/ ClientRecv(1, TxCap)

Spec == Init /\ [][Next]_vars

\* the thread runs the drive loop, and clients read what they are sent
FairSpec ==
  /\ Spec
  /\ WF_vars(SchedulerStep)
  /\ \A c \in Conns : WF_vars(ClientRecv(c, TxCap))

SpecOne == Init /\ [][NextOne]_vars

SpecLarge == Init /\ [][NextLarge]_vars


\* ---- properties ---------------------------------------------------------
Tasks == {MainTask} \cup Conns

\* the source a task waits on: the listener, or the task's connection
Src(t) == IF t = MainTask THEN ListenerFd ELSE fd[t]

\* connection c is connected and its peer has sent a terminated request
RequestSent(c) ==
  /\ cstate[c] \in {"queued", "open"}
  /\ Contains(Flatten(taken[c]) \o rx[c], Terminator)

\* C1: every connection whose peer has sent a complete, header-terminated
\* request is eventually served the whole response (written and flushed),
\* however many other connections are pending.
C1_EveryRequestAnswered ==
  \A c \in Conns : RequestSent(c) ~> (outcome[c] = "served")

\* C2: a task whose poll returned pending has an entry for its own source in
\* the Reactor's table, registered with the multiplexer, whose waker
\* re-enqueues that very task (no lost wakeup).
C2_NoLostWakeup ==
  \A t \in Tasks :
    ret[t] = "pending" =>
      /\ Src(t) \in DOMAIN tasks
      /\ tasks[Src(t)] = t
      /\ Src(t) \in interest

C2_Witness ==
  \E c \in Conns :
    /\ pc = "wait"
    /\ ret[c] = "pending"
    /\ handler[c].tag = "Read"
    /\ fd[c] \notin Range(events)

\* every underlying operation of task t reports not-ready
NotReady(t) ==
  IF t = MainTask THEN mainState = "Accept" /\ backlog = <<>>
  ELSE LET h == handler[t]
       IN  \/ /\ h.tag = "Read"
              /\ SockRead(rx[t], peer[t], Cap - h.read).kind = "wouldblock"
           \/ /\ h.tag = "Write"
              /\ SockWrite(inflight[t], peer[t],
                           Len(Response) - h.written).kind = "wouldblock"
           \/ /\ h.tag = "Flush"
              /\ SockFlush(inflight[t], peer[t]) = "wouldblock"

\* C3: polling a task that returned pending before, when nothing became
\* ready, returns pending again and changes neither the task's state (variant,
\* request buffer, offsets) nor the registration table nor the run-queue.
C3_SpuriousPollIsNoOp ==
  [][(pc = "poll" /\ ret[current] = "pending" /\ NotReady(current)) =>
       /\ ret'[current] = "pending"
       /\ handler' = handler
       /\ mainState' = mainState
       /\ tasks' = tasks
       /\ runnable' = runnable]_vars

C3_Witness ==
  /\ pc = "poll"
  /\ current \in Conns
  /\ ret[current] = "pending"
  /\ NotReady(current)
  /\ handler[current].tag = "Read"
  /\ handler[current].read > 0

\* C4: a Handler whose first read returns zero bytes completes with its
\* connection deregistered: no table entry is left for it and the table is
\* back to the entries it had before the accept (the listener's).
C4_ZeroReadDeregisters ==
  \A c \in Conns :
    (outcome[c] = "disconnected" /\ taken[c] = <<>>) =>
      /\ \A tok \in DOMAIN tasks : tasks[tok] # c
      /\ DOMAIN tasks = {ListenerFd}

\* C5: a Handler that ends after 1024 bytes without a terminator, its peer
\* still connected, ends with an outcome distinct from the peer-closed one.
C5_TooLargeIsDistinct ==
  \A c \in Conns :
    (/\ ret[c] = "ready"
     /\ peer[c] = "open"
     /\ printed[c] = <<>>
     /\ Len(Flatten(taken[c])) = Cap) =>
      outcome[c] # "disconnected"

\* C6: an I/O error other than not-ready on a connection ends that
\* connection's task only; the drive loop keeps running.
C6_FailureIsolated ==
  \A c \in Conns : ret[c] = "panic" => pc # "panicked"

\* C7: the request buffer holds, at the read offset, exactly the bytes read
\* so far in their order, across polls; the Handler stays in Read only
\* while those bytes do not end with the terminator, and once they do the
\* request it handles is the concatenation of the pieces, as if read at once.
C7_ResumesAcrossChunks ==
  \A c \in Conns :
    /\ handler[c].tag = "Read" =>
         /\ handler[c].read = Len(Flatten(taken[c]))
         /\ ReqSlice(handler[c].request, handler[c].read) = Flatten(taken[c])
         /\ ~EndsWith(Flatten(taken[c]), Terminator)
    /\ printed[c] # <<>> =>
         /\ printed[c] = Flatten(taken[c])
         /\ EndsWith(printed[c], Terminator)
         /\ handler[c].tag \in {"Write", "Flush", "Dropped"}

C7_Witness ==
  /\ taken[1] = << <<71, CR, LF>>, <<CR, LF>> >>
  /\ printed[1] = <<71, CR, LF, CR, LF>>
  /\ handler[1].tag \in {"Write", "Flush"}

\* C8: the bytes written to a connection are always a prefix of the fixed
\* response, the written offset counts them, and the Handler is past Write
\* only when the whole response has been written.
C8_ResponseWrittenInOrder ==
  \A c \in Conns :
    /\ IsPrefix(Flatten(wire[c]), Response)
    /\ handler[c].tag = "Write" =>
         /\ handler[c].written = Len(Flatten(wire[c]))
         /\ handler[c].written < Len(Response)
    /\ (handler[c].tag = "Flush" \/ outcome[c] = "served") =>
         Flatten(wire[c]) = Response

C8_Witness ==
  /\ outcome[1] = "served"
  /\ Len(wire[1]) >= 3
  /\ Flatten(taken[1]) = GetRequest

\* C9: the Scheduler is in Reactor::wait only with an empty run-queue, and
\* while it is there and the multiplexer has no event it stays there: no
\* task is popped or polled.
C9_BlocksWhenIdle ==
  /\ [](pc = "wait" => (runnable = <<>> /\ current = NoTask))
  /\ [][(pc = "wait" /\ events = <<>>) =>
          /\ pc' = "wait"
          /\ runnable' = <<>>
          /\ current' = NoTask
          /\ handler' = handler
          /\ mainState' = mainState
          /\ ret' = ret]_vars

C9_Witness ==
  /\ pc = "wait"
  /\ events = <<>>
  /\ runnable = <<>>
  /\ DOMAIN tasks = {ListenerFd}
  /\ ret[MainTask] = "pending"

\* C10: the task being polled is not in the run-queue, and a task is being
\* polled exactly while the Scheduler is inside poll.
C10_NoReentrantAdvance ==
  /\ current # NoTask => current \notin Range(runnable)
  /\ pc = "poll" => current # NoTask
  /\ pc \in {"drain", "wait"} => current = NoTask

C10_Witness ==
  /\ pc = "poll"
  /\ current \in Conns
  /\ ret[current] = "pending"
  /\ runnable # <<>>

\* the number of occurrences of task t in queue q
Count(q, t) == Cardinality({i \in DOMAIN q : q[i] = t})

\* C11: every task handle occurs at most once in the run-queue.
C11_WakesCoalesce ==
  \A t \in Tasks : Count(runnable, t) <= 1

C11_Witness ==
  /\ Len(runnable) >= 2
  /\ \A i \in DOMAIN runnable : ret[runnable[i]] = "pending"

\* C12 as stated: a drain pass advances only tasks that were in the
\* run-queue when the pass started.
C12_SnapshotPass ==
  current # NoTask => current \in Range(snapshot)

\* C12 amended: the tasks of a pass are the queue at its start, in order,
\* followed by Handlers spawned during the pass, which wait for their first
\* poll; no task is in a pass twice, so a task that returned pending is
\* polled again only after Reactor::wait.
C12_PassDrainsQueue ==
  LET seq == passed \o runnable
  IN  /\ IsPrefix(snapshot, seq)
      /\ \A i \in DOMAIN seq : \A j \in DOMAIN seq : seq[i] = seq[j] => i = j
      /\ \A i \in DOMAIN seq :
            i > Len(snapshot) =>
              /\ seq[i] \in Conns
              /\ i > Len(passed) => ret[seq[i]] = "new"

C12_Witness ==
  /\ pc = "poll"
  /\ current \in Conns
  /\ current \notin Range(snapshot)
  /\ ret[current] = "new"
  /\ MainTask \in Range(passed)

\* C13: once a Handler has reported completion, on any path, its handle is
\* never in the run-queue and never polled again.
C13_CompletedNeverRunsAgain ==
  \A c \in Conns :
    ret[c] = "ready" => c \notin Range(runnable) /\ current # c

\* the position of a Handler's state in the declaration order of
\* HandlerState; a Handler that does not exist yet comes first, one that
\* has been dropped comes last
Rank(state) ==
  CASE state.tag = "None"    -> 0
    [] state.tag = "Start"   -> 1
    [] state.tag = "Read"    -> 2
    [] state.tag = "Write"   -> 3
    [] state.tag = "Flush"   -> 4
    [] state.tag = "Dropped" -> 5

\* C14: a Handler's state only moves forward through Start, Read, Write,
\* Flush and its end; once poll has returned Some(()) the state moves no
\* more; the Handler is in Write only after the request terminator was
\* read and in Flush only after the whole response was written.
C14_StateMovesForward ==
  [][\A c \in Conns :
       /\ Rank(handler'[c]) >= Rank(handler[c])
       /\ ret[c] = "ready" => handler'[c].tag \in {handler[c].tag, "Dropped"}
       /\ handler'[c].tag = "Write" =>
            EndsWith(Flatten(taken'[c]), Terminator)
       /\ handler'[c].tag = "Flush" =>
            Flatten(wire'[c]) = Response]_vars

C14_Witness ==
  \E c \in Conns :
    /\ handler[c].tag = "Flush"
    /\ Len(taken[c]) >= 2
    /\ Len(wire[c]) >= 2

\* C15: in Read the offset never exceeds the buffer capacity, and in Write
\* the written count never exceeds the length of the response.
C15_OffsetsBounded ==
  \A c \in Conns :
    /\ handler[c].tag = "Read" =>
         /\ handler[c].read <= Cap
         /\ Len(handler[c].request) <= Cap
    /\ handler[c].tag = "Write" => handler[c].written <= Len(Response)

C15_Witness ==
  \E c \in Conns :
    /\ handler[c].tag = "Read"
    /\ handler[c].read = Cap
    /\ Len(Flatten(taken[c])) = Cap
    /\ rx[c] # <<>>

\* C16: the Acceptor never reports completion; once registered, the listener
\* stays in the Reactor's table with the Acceptor's waker; whenever the
\* scheduler blocks in Reactor::wait the table holds the listener's token.
C16_ListenerStaysRegistered ==
  /\ ret[MainTask] # "ready"
  /\ mainState = "Accept" =>
       /\ ListenerFd \in DOMAIN tasks
       /\ tasks[ListenerFd] = MainTask
       /\ ListenerFd \in interest
  /\ pc = "wait" => mainState = "Accept" /\ ListenerFd \in DOMAIN tasks

C16_Witness ==
  /\ pc = "wait"
  /\ \E c \in Conns : outcome[c] = "served" /\ handler[c].tag = "Dropped"
  /\ ListenerFd \in DOMAIN tasks

Woken(evs, t) ==
  Cardinality({i \in DOMAIN evs : evs[i] \in DOMAIN tasks /\ tasks[evs[i]] = t})

\* C18: a ready source is reported once per batch, whatever readiness fired;
\* one Reactor::wait call pushes each task once per ready source it owns,
\* so once at most, and pushes no task whose source is not in the batch.
C18_WakesEachReadyOnce ==
  [][pc = "wait" /\ pc' = "drain" =>
       /\ \A i \in DOMAIN events : \A j \in DOMAIN events :
             events[i] = events[j] => i = j
       /\ \A t \in Tasks :
             /\ Count(runnable', t) = Count(runnable, t) + Woken(events, t)
             /\ Woken(events, t) <= 1]_vars

C18_Witness ==
  /\ pc = "drain"
  /\ passed = <<>>
  /\ snapshot = runnable
  /\ Len(runnable) >= 2
  /\ \E tok \in DOMAIN tasks : tasks[tok] \notin Range(runnable)

\* C19: one poll of the Acceptor takes every pending connection off the
\* listener and spawns a Handler in Start for each of them.
C19_AcceptsUntilNotReady ==
  [][pc = "poll" /\ current = MainTask /\ pc' = "drain" =>
       /\ backlog' = <<>>
       /\ \A c \in Range(backlog) :
             handler'[c].tag = "Start" /\ c \in Range(runnable')]_vars

\* C20: the Handler is in Read only while the bytes it has received so far
\* do not contain the terminator, wherever the reads cut the stream.
C20_FirstTerminatorEndsRequest ==
  \A c \in Conns :
    handler[c].tag = "Read" => ~Contains(Flatten(taken[c]), Terminator)

\* C21: once a Handler has finished normally, after a successful flush, no
\* entry of the Reactor's table refers to it, it has been dropped, and it is
\* neither in the run-queue nor being polled: no later event wakes it.
C21_RemovedBeforeCompletion ==
  \A c \in Conns :
    outcome[c] = "served" =>
      /\ ret[c] = "ready"
      /\ \A tok \in DOMAIN tasks : tasks[tok] # c
      /\ handler[c].tag = "Dropped"
      /\ c \notin Range(runnable)
      /\ current # c

C21_Witness ==
  \E c \in Conns : \E d \in Conns :
    /\ outcome[c] = "served"
    /\ token[d] = token[c]
    /\ d # c
    /\ outcome[d] = "none"
    /\ token[d] \in DOMAIN tasks
    /\ token[d] \in Range(events)

\* the tasks whose wakers the table holds for the tokens of the batch evs,
\* in the order of the batch
WokenTasks(evs, t) ==
  LET reg == SelectSeq(evs, LAMBDA tok : tok \in DOMAIN t)
  IN  [i \in 1..Len(reg) |-> t[reg[i]]]

\* C22: a Reactor::wait call only appends the woken tasks at the back of the
\* run-queue, in the order of the batch: it changes no task's state, buffer
\* or offset, leaves the registration table as it was and polls no task.
C22_WakeOnlyEnqueues ==
  [][pc = "wait" /\ pc' = "drain" =>
       /\ runnable' = runnable \o WokenTasks(events, tasks)
       /\ UNCHANGED <<mainState, handler, ret, current, tasks, interest>>
       /\ UNCHANGED <<rx, inflight, wire, taken, printed, outcome, fd, cstate,
                      backlog>>]_vars

C22_Witness ==
  /\ pc = "drain"
  /\ passed = <<>>
  /\ snapshot = runnable
  /\ Len(runnable) >= 2
  /\ \E c \in Range(runnable) \cap Conns :
       handler[c].tag = "Write" /\ handler[c].written > 0

\* the Handlers a step creates: spawn(Handler { connection, state: Start })
Spawned(c) == handler[c].tag = "None" /\ handler'[c].tag = "Start"

\* C23: the run-queue changes only by the Scheduler's pop, which takes the
\* front handle and polls it, by a spawn, which appends the new Handler at
\* the back, and by the wakers of Reactor::wait, which append at the back;
\* every other step leaves it as it was.
C23_QueueIsFifo ==
  [][/\ pc = "drain" /\ pc' = "poll" =>
          /\ runnable # <<>>
          /\ current' = Head(runnable)
          /\ runnable' = Tail(runnable)
     /\ pc = "poll" /\ current = MainTask /\ pc' = "drain" =>
          \/ runnable' = runnable /\ \A c \in Conns : ~Spawned(c)
          \/ \E c \in Conns :
               /\ Spawned(c)
               /\ \A d \in Conns \ {c} : ~Spawned(d)
               /\ runnable' = Append(runnable, c)
     /\ pc = "wait" /\ pc' = "drain" =>
          runnable' = runnable \o WokenTasks(events, tasks)
     /\ ~(pc = "drain" /\ pc' = "poll")
          /\ ~(pc = "poll" /\ current = MainTask /\ pc' = "drain")
          /\ ~(pc = "wait" /\ pc' = "drain") =>
          runnable' = runnable /\ \A c \in Conns : ~Spawned(c)]_vars

C23_Witness ==
  /\ pc = "poll"
  /\ Len(passed) >= 2
  /\ IsPrefix(passed, snapshot)
  /\ passed[1] \in Conns
  /\ current = passed[Len(passed)]

====
